---- MODULE Spec2Model ----
(***************************************************************************)
(* Receive ring of netsniff-ng (ring_rx.c): layout calculation, adaptive   *)
(* ring creation, setup orchestration and version-asymmetric teardown.     *)
(* The model is of the HAVE_TPACKET3 build, in which is_tpacket_v3 asks    *)
(* the socket for its negotiated ABI.  errno is the C errno: a failed      *)
(* system call sets it, a successful one leaves it as it was.              *)
(***************************************************************************)
EXTENDS Integers, Naturals, Sequences, FiniteSets, TLC

(* ---- bounds of the model ---- *)
MaxBudgetHalfPages == 64
MaxDestroyCalls == 2

MaxPassed == 1
MaxDrops == 1
MaxSeen == 2

(* ---- program constants ---- *)
TPACKET_ALIGNMENT == 16
PageSizes == {4096, 16384}
Errnos == {"NONE", "ENOMEM", "EOTHER"}

VARIABLES
    pc,            \* position of the single capture context
    errno,         \* C errno
    pagesize,      \* RUNTIME_PAGE_SIZE
    args,          \* arguments of ring_rx_setup: size, jumbo_support, v3
    ring,          \* struct ring
    sock,          \* the packet socket: negotiated ABI
    ret,           \* local ret of create_rx_ring / destroy_rx_ring
    steps,         \* history: setup steps completed, in order
    reqs,          \* history: PACKET_RX_RING requests issued by create_rx_ring
    td,            \* history of teardown
    out            \* sock_rx_net_stats: the counters it was given and the lines it printed

vars == <<pc, errno, pagesize, args, ring, sock, ret, steps, reqs, td, out>>

Shl(x, n) == x * (2 ^ n)
Shr1(x) == x \div 2

ZeroLayout ==
    [tp_block_size |-> 0, tp_block_nr |-> 0, tp_frame_size |-> 0, tp_frame_nr |-> 0]

LayoutOf(r) ==
    [tp_block_size |-> r.tp_block_size, tp_block_nr |-> r.tp_block_nr,
     tp_frame_size |-> r.tp_frame_size, tp_frame_nr |-> r.tp_frame_nr]

\* fmemset(ring, 0, sizeof(*ring))
ZeroRing ==
    [tp_block_size |-> 0, tp_block_nr |-> 0, tp_frame_size |-> 0, tp_frame_nr |-> 0,
     tp_retire_blk_tov |-> 0, tp_sizeof_priv |-> 0, tp_feature_req_word |-> 0,
     mm_len |-> 0, mm_space |-> "null", mapped_len |-> 0,
     frames |-> "null", frames_num |-> 0, frames_size |-> 0]

\* fmemset(&ring->layout, 0, sizeof(ring->layout)): the four tpacket_req fields
ZeroedLayout(r) ==
    [r EXCEPT !.tp_block_size = 0, !.tp_block_nr = 0,
              !.tp_frame_size = 0, !.tp_frame_nr = 0]

is_tpacket_v3(s) == s.version = "TPACKET_V3"

get_ring_layout_size(v3) == IF v3 THEN "layout3" ELSE "layout"

\* a jumbo block profile of 64 pages
BlockSize_JumboSixtyFour(jumbo, page) == IF jumbo THEN Shl(page, 6) ELSE Shl(page, 2)

\* a small block profile of eight pages
BlockSize_Eight(jumbo, page) == IF jumbo THEN Shl(page, 4) ELSE Shl(page, 3)

BlockSize(jumbo, page) == IF jumbo THEN Shl(page, 4) ELSE Shl(page, 2)

FrameSize(jumbo) ==
    IF jumbo THEN Shl(TPACKET_ALIGNMENT, 12) ELSE Shl(TPACKET_ALIGNMENT, 7)

FrameNr(bs, fs, nr) == (bs \div fs) * nr

\* the geometry part of setup_rx_ring_layout
LayoutCalc(r, size, jumbo, v3, page) ==
    LET z  == ZeroedLayout(r)
        bs == BlockSize(jumbo, page)
        fs == FrameSize(jumbo)
        nr == size \div bs
        g  == [z EXCEPT !.tp_block_size = bs, !.tp_frame_size = fs,
                        !.tp_block_nr = nr, !.tp_frame_nr = FrameNr(bs, fs, nr)]
    IN  IF v3 THEN [g EXCEPT !.tp_retire_blk_tov = 100, !.tp_sizeof_priv = 0,
                             !.tp_feature_req_word = 0]
        ELSE g

\* a layout step that selects v2 whatever the caller asked for
SelectVariant_AlwaysV2(v3) == "TPACKET_V2"

\* lines 85-99: set_sockopt_tpacket_v3 or set_sockopt_tpacket_v2
SelectVariant(v3) == IF v3 THEN "TPACKET_V3" ELSE "TPACKET_V2"

ring_verify_layout(r, page) ==
    /\ r.tp_frame_size > 0
    /\ r.tp_block_size >= r.tp_frame_size
    /\ r.tp_block_size % r.tp_frame_size = 0
    /\ r.tp_block_size % page = 0

\* the frame table built before the region is mapped
ring_rx_setup_after_Swapped(step) ==
    CASE step = "zero"   -> "layout"
      [] step = "layout" -> "create"
      [] step = "create" -> "frames"
      [] step = "frames" -> "mmap"
      [] step = "mmap"   -> "bind"
      [] step = "bind"   -> "poll"
      [] step = "poll"   -> "ready"

\* order of the calls in ring_rx_setup: the position after a completed step
ring_rx_setup_after(step) ==
    CASE step = "zero"   -> "layout"
      [] step = "layout" -> "create"
      [] step = "create" -> "mmap"
      [] step = "mmap"   -> "frames"
      [] step = "frames" -> "bind"
      [] step = "bind"   -> "poll"
      [] step = "poll"   -> "ready"

Budgets(page) == {i * (page \div 2) : i \in 0..MaxBudgetHalfPages}

Init ==
    /\ pc = "idle"
    /\ errno \in Errnos
    /\ pagesize \in PageSizes
    /\ args = [size |-> 0, jumbo_support |-> FALSE, v3 |-> FALSE]
    /\ ring = ZeroRing
    /\ sock = [version |-> "TPACKET_V1"]
    /\ ret = 0
    /\ steps = <<>>
    /\ reqs = <<>>
    /\ td = [calls |-> 0, unmaps |-> 0, xfrees |-> 0, reconfs |-> <<>>,
             entry |-> ZeroLayout, v3 |-> FALSE, trace |-> <<>>]
    /\ out = [calls |-> 0, ok |-> FALSE, packets |-> 0, drops |-> 0, seen |-> 0,
              lines |-> <<>>]

\* ring_rx_setup entry and its first statement
ring_rx_setup ==
    /\ pc = "idle"
    /\ \E size \in Budgets(pagesize), jumbo \in BOOLEAN, v3 \in BOOLEAN :
          args' = [size |-> size, jumbo_support |-> jumbo, v3 |-> v3]
    /\ ring' = ZeroRing
    /\ steps' = Append(steps, "zero")
    /\ pc' = ring_rx_setup_after("zero")
    /\ UNCHANGED <<errno, pagesize, sock, ret, reqs, td, out>>

setup_rx_ring_layout ==
    /\ pc = "layout"
    /\ LET r == LayoutCalc(ring, args.size, args.jumbo_support, args.v3, pagesize)
       IN  /\ ring' = r
           /\ sock' = [sock EXCEPT !.version = SelectVariant(args.v3)]
           /\ IF ring_verify_layout(r, pagesize)
                 THEN /\ steps' = Append(steps, "layout")
                      /\ pc' = ring_rx_setup_after("layout")
                 ELSE /\ steps' = steps
                      /\ pc' = "dead"
    /\ UNCHANGED <<errno, pagesize, args, ret, reqs, td, out>>

\* the retry test without the errno test
RetryCond_AnyError(e, r) == r.tp_block_nr > 1

\* the retry test with an off-by-one in the block count
RetryCond_AtOne(e, r) == e = "ENOMEM" /\ r.tp_block_nr >= 1

\* line 114: the test that sends create_rx_ring back to retry
RetryCond(e, r) == e = "ENOMEM" /\ r.tp_block_nr > 1

\* a degradation step that gives up one block at a time
Degrade_ByOne(r) ==
    [r EXCEPT !.tp_block_nr = r.tp_block_nr - 1,
              !.tp_frame_nr =
                 FrameNr(r.tp_block_size, r.tp_frame_size, r.tp_block_nr - 1)]

\* a degradation step that forgets the frame count
Degrade_StaleFrames(r) == [r EXCEPT !.tp_block_nr = Shr1(r.tp_block_nr)]

\* lines 115-118: one degradation step
Degrade(r) ==
    LET nr == Shr1(r.tp_block_nr)
    IN  [r EXCEPT !.tp_block_nr = nr,
                  !.tp_frame_nr = FrameNr(r.tp_block_size, r.tp_frame_size, nr)]

\* the failure test with the comparison turned round
AllocFailed_Positive(r) == r > 0

\* line 121
AllocFailed(r) == r < 0

\* the mapped length taken from the frame size
MmLen_FrameSize(r) == r.tp_frame_size * r.tp_block_nr

\* line 124
MmLen(r) == r.tp_block_size * r.tp_block_nr

\* lines 110-112: setsockopt(sock, SOL_PACKET, PACKET_RX_RING, &ring->raw, layout_size)
create_rx_ring_request ==
    /\ pc = "create"
    /\ \E res \in {"OK", "ENOMEM", "EOTHER"} :
          /\ ret' = IF res = "OK" THEN 0 ELSE -1
          /\ errno' = IF res = "OK" THEN errno ELSE res
          /\ reqs' = Append(reqs, [layout |-> LayoutOf(ring),
                                   len |-> get_ring_layout_size(is_tpacket_v3(sock)),
                                   res |-> res])
    /\ pc' = "create_chk"
    /\ UNCHANGED <<pagesize, args, ring, sock, steps, td, out>>

\* lines 114-124: retry, panic, or record the mapped length and return
create_rx_ring_check ==
    /\ pc = "create_chk"
    /\ IF RetryCond(errno, ring)
          THEN /\ ring' = Degrade(ring)
               /\ pc' = "create"
               /\ steps' = steps
          ELSE IF AllocFailed(ret)
          THEN /\ pc' = "dead"
               /\ UNCHANGED <<ring, steps>>
          ELSE /\ ring' = [ring EXCEPT !.mm_len = MmLen(ring)]
               /\ steps' = Append(steps, "create")
               /\ pc' = ring_rx_setup_after("create")
    /\ UNCHANGED <<errno, pagesize, args, sock, ret, reqs, td, out>>

\* mmap_ring_generic: map mm_len bytes or die; mmap(2) refuses a length of 0
mmap_ring_generic ==
    /\ pc = "mmap"
    /\ \E ok \in BOOLEAN :
          IF ok /\ ring.mm_len > 0
             THEN /\ ring' = [ring EXCEPT !.mm_space = "mapped",
                                          !.mapped_len = ring.mm_len]
                  /\ steps' = Append(steps, "mmap")
                  /\ pc' = ring_rx_setup_after("mmap")
             ELSE /\ pc' = "dead"
                  /\ UNCHANGED <<ring, steps>>
    /\ UNCHANGED <<errno, pagesize, args, sock, ret, reqs, td, out>>

\* the frame pair of v2 handed out for both versions
FramePair_AlwaysFrames(r, v3) == <<r.tp_frame_nr, r.tp_frame_size>>

\* lines 145-151: the (count, unit size) pair handed to the frame-table builder
FramePair(r, v3) ==
    IF v3 THEN <<r.tp_block_nr, r.tp_block_size>>
          ELSE <<r.tp_frame_nr, r.tp_frame_size>>

\* alloc_ring_frames_generic(ring, num, size): a table of num entries, size apart
alloc_ring_frames_generic(r, num, size) ==
    [r EXCEPT !.frames = "live", !.frames_num = num, !.frames_size = size]

alloc_rx_ring_frames ==
    /\ pc = "frames"
    /\ LET p == FramePair(ring, is_tpacket_v3(sock))
       IN  ring' = alloc_ring_frames_generic(ring, p[1], p[2])
    /\ steps' = Append(steps, "frames")
    /\ pc' = ring_rx_setup_after("frames")
    /\ UNCHANGED <<errno, pagesize, args, sock, ret, reqs, td, out>>

\* bind_ring_generic(sock, ring, ifindex, false): bind for receive or die
bind_ring_generic ==
    /\ pc = "bind"
    /\ \E ok \in BOOLEAN :
          IF ok THEN /\ steps' = Append(steps, "bind")
                     /\ pc' = ring_rx_setup_after("bind")
                ELSE /\ pc' = "dead"
                     /\ steps' = steps
    /\ UNCHANGED <<errno, pagesize, args, ring, sock, ret, reqs, td, out>>

\* prepare_polling(sock, poll); ring_rx_setup then returns
prepare_polling ==
    /\ pc = "poll"
    /\ steps' = Append(steps, "poll")
    /\ pc' = ring_rx_setup_after("poll")
    /\ UNCHANGED <<errno, pagesize, args, ring, sock, ret, reqs, td, out>>

\* lines 49-52: munmap(ring->mm_space, ring->mm_len); ring->mm_len = 0.
\* munmap(2) with a length of 0 fails and unmaps nothing.
destroy_rx_ring_unmap ==
    /\ pc \in {"ready", "torn"}
    /\ td.calls < MaxDestroyCalls
    /\ LET does == ring.mm_len > 0 /\ ring.mm_space = "mapped"
       IN  /\ ring' = [ring EXCEPT !.mm_len = 0,
                          !.mm_space = IF does THEN "unmapped" ELSE @]
           /\ td' = [td EXCEPT !.calls = @ + 1,
                               !.unmaps = IF does THEN @ + 1 ELSE @,
                               !.reconfs = <<>>,
                               !.trace = <<"unmap">>,
                               !.entry = LayoutOf(ring),
                               !.v3 = is_tpacket_v3(sock)]
           /\ errno' = IF does THEN errno ELSE "EOTHER"
    /\ pc' = "d_free"
    /\ UNCHANGED <<pagesize, args, sock, ret, steps, reqs, out>>

\* line 54: xfree(ring->frames).  Releasing a table that is no longer live
\* either aborts the process or goes on over a corrupted heap.
destroy_rx_ring_free ==
    /\ pc = "d_free"
    /\ td' = [td EXCEPT !.xfrees = @ + 1, !.trace = Append(@, "free")]
    /\ IF ring.frames = "live"
          THEN /\ ring' = [ring EXCEPT !.frames = "released"]
               /\ pc' = "d_reconf"
          ELSE /\ ring' = ring
               /\ pc' \in {"d_reconf", "dead"}
    /\ UNCHANGED <<errno, pagesize, args, sock, ret, steps, reqs, out>>

\* a teardown that reconfigures both versions
SkipReconf_Never(v3) == FALSE

\* line 57
SkipReconf(v3) == v3

\* a failed reconfiguration that goes unnoticed
ReconfFailed_Ignored(r) == FALSE

\* line 63
ReconfFailed(r) == r # 0

\* lines 57-64: v3 returns; v2 zeroes the layout and reconfigures the socket
destroy_rx_ring_reconf ==
    /\ pc = "d_reconf"
    /\ IF SkipReconf(td.v3)
          THEN /\ pc' = "torn"
               /\ UNCHANGED <<ring, td, ret, errno>>
          ELSE \E res \in {"OK", "EOTHER"} :
               /\ ring' = ZeroedLayout(ring)
               /\ td' = [td EXCEPT !.reconfs =
                            Append(@, [layout |-> LayoutOf(ZeroedLayout(ring)),
                                       len |-> "layout", res |-> res]),
                                   !.trace = Append(@, "reconf")]
               /\ ret' = IF res = "OK" THEN 0 ELSE -1
               /\ errno' = IF res = "OK" THEN errno ELSE res
               /\ pc' = IF ReconfFailed(IF res = "OK" THEN 0 ELSE -1)
                            THEN "dead" ELSE "torn"
    /\ UNCHANGED <<pagesize, args, sock, steps, reqs, out>>

(* ---- sock_rx_net_stats ---- *)
\* A uint64_t is kept as a pair: [wrap |-> FALSE, v |-> n] is n, and
\* [wrap |-> TRUE, v |-> n] is 2^64 - n, the value an unsigned subtraction
\* leaves when it borrows.
U64(n) == [wrap |-> FALSE, v |-> n]

\* a - b in uint64_t arithmetic, for a and b below 2^64
Sub64(a, b) == IF a >= b THEN U64(a - b) ELSE [wrap |-> TRUE, v |-> b - a]

\* the success test letting one more value through
QueryOk_OffByOne(r) == r >= -1

\* line 181
QueryOk(r) == r > -1

\* line 186: the two figures of the "packets incoming" line
IncomingLine(v3, packets, seen) ==
    [kind |-> "incoming",
     val |-> IF v3 THEN U64(seen) ELSE U64(packets),
     unread |-> IF v3 THEN Sub64(packets, seen) ELSE U64(0)]

\* the drop-rate guard off by one
HasDropRate_AboveOne(packets) == packets > 1

\* line 189
HasDropRate(packets) == packets > 0

\* line 191: (1.0 * drops / packets) * 100.0 as %.4lf prints it, in units of
\* 0.0001 percent, rounded to nearest
DropRate(drops, packets) == (2 * drops * 1000000 + packets) \div (2 * packets)

\* lines 182-191
ReportLines(v3, packets, drops, seen) ==
    <<IncomingLine(v3, packets, seen),
      [kind |-> "passed", val |-> Sub64(packets, drops)],
      [kind |-> "failed", val |-> U64(drops)]>>
    \o (IF HasDropRate(packets)
           THEN <<[kind |-> "droprate", val |-> DropRate(drops, packets)]>>
           ELSE <<>>)

\* the counters PACKET_STATISTICS hands out: tp_packets counts the dropped
\* packets as well
PassedCounts == (0..MaxPassed) \cup {950}
DropCounts == (0..MaxDrops) \cup {50}

\* lines 169-193
sock_rx_net_stats ==
    /\ pc = "ready"
    /\ out.calls = 0
    /\ \E seen \in 0..MaxSeen, passed \in PassedCounts, dropped \in DropCounts,
          r \in {0, -1} :
          LET packets == passed + dropped
          IN  /\ out' = [calls |-> 1, ok |-> (r = 0), seen |-> seen,
                         packets |-> IF r = 0 THEN packets ELSE 0,
                         drops |-> IF r = 0 THEN dropped ELSE 0,
                         lines |-> IF QueryOk(r)
                                      THEN ReportLines(is_tpacket_v3(sock),
                                                       IF r = 0 THEN packets ELSE 0,
                                                       IF r = 0 THEN dropped ELSE 0,
                                                       seen)
                                      ELSE <<>>]
              /\ errno' = IF r = 0 THEN errno ELSE "EOTHER"
    /\ UNCHANGED <<pc, pagesize, args, ring, sock, ret, steps, reqs, td>>

Next ==
    \/ ring_rx_setup
    \/ setup_rx_ring_layout
    \/ create_rx_ring_request
    \/ create_rx_ring_check
    \/ mmap_ring_generic
    \/ alloc_rx_ring_frames
    \/ bind_ring_generic
    \/ prepare_polling
    \/ destroy_rx_ring_unmap
    \/ destroy_rx_ring_free
    \/ destroy_rx_ring_reconf
    \/ sock_rx_net_stats

Spec == Init /\ [][Next]_vars

\* The capture context runs on: a system call returns and the statement after
\* it is executed.
LiveSpec ==
    Spec /\ WF_vars(create_rx_ring_request) /\ WF_vars(create_rx_ring_check)

TypeOK ==
    /\ pc \in {"idle", "layout", "create", "create_chk", "mmap", "frames", "bind",
               "poll", "ready", "d_free", "d_reconf", "torn", "dead"}
    /\ errno \in Errnos
    /\ ret \in {0, -1}

(* ---- helpers of the properties ---- *)
SetupOrder == <<"zero", "layout", "create", "mmap", "frames", "bind", "poll">>

IsPrefix(a, b) == Len(a) <= Len(b) /\ \A i \in 1..Len(a) : a[i] = b[i]

LastReq == reqs[Len(reqs)]

\* number of ENOMEM failures at the head of the request history
RECURSIVE LeadingENOMEM(_, _)
LeadingENOMEM(rs, i) ==
    IF i <= Len(rs) /\ rs[i].res = "ENOMEM" THEN LeadingENOMEM(rs, i + 1) ELSE i - 1

\* create_rx_ring has just returned
CreateReturned == pc = "mmap"

(* ---- C1 ---- *)
\* C1: if the allocation request fails with ENOMEM on exactly the first k
\* attempts and succeeds on attempt k+1, with n / 2^k >= 1 for the initial
\* block count n, create_rx_ring returns with block count n / 2^k and frame
\* count block_size / frame_size * block count.
C1_DegradationConvergence ==
    (CreateReturned /\ Len(reqs) > 0) =>
        LET k == LeadingENOMEM(reqs, 1)
            n == reqs[1].layout.tp_block_nr
        IN  (k < Len(reqs) /\ reqs[k + 1].res = "OK" /\ n \div (2 ^ k) >= 1) =>
               /\ ring.tp_block_nr = n \div (2 ^ k)
               /\ ring.tp_frame_nr =
                     (ring.tp_block_size \div ring.tp_frame_size) * ring.tp_block_nr

(* ---- C2 ---- *)
\* C2: after every successful ring_rx_setup, mm_len is block size times block
\* count of the geometry the last allocation request carried, and that
\* request succeeded.
C2_MappedLength ==
    pc = "ready" =>
        /\ Len(reqs) > 0
        /\ LastReq.res = "OK"
        /\ ring.mm_len = LastReq.layout.tp_block_size * LastReq.layout.tp_block_nr

C2_Witness ==
    /\ pc = "ready"
    /\ Len(reqs) >= 3
    /\ ring.mm_len > 0
    /\ ring.tp_block_size # ring.tp_frame_size

(* ---- C3 ---- *)
\* C3: across any sequence of teardown calls the mapped region is unmapped at
\* most once and the frame table is released at most once: a second
\* destroy_rx_ring neither unmaps nor releases again.
C3_IdempotentTeardown == td.unmaps <= 1 /\ td.xfrees <= 1

(* ---- C4 ---- *)
\* C4: an allocation request that fails while block count is 1 is followed by
\* the fatal exit and by no further request; successive requests carry
\* strictly decreasing block counts; create_rx_ring always reaches success or
\* the fatal exit.
C4_DegradationTermination ==
    /\ [](\A i \in 1..(Len(reqs) - 1) :
             reqs[i + 1].layout.tp_block_nr < reqs[i].layout.tp_block_nr)
    /\ [][(pc = "create_chk" /\ ret < 0 /\ ring.tp_block_nr = 1) =>
             (pc' = "dead" /\ reqs' = reqs)]_vars
    /\ [][pc = "dead" => reqs' = reqs]_vars
    /\ ((pc = "create") ~> (pc = "mmap" \/ pc = "dead"))

C4_Witness ==
    /\ pc = "dead"
    /\ Len(reqs) >= 2
    /\ LastReq.res = "ENOMEM"
    /\ LastReq.layout.tp_block_nr = 1
    /\ steps = <<"zero", "layout">>

(* ---- C5 ---- *)
\* C5: a returned destroy_rx_ring has issued exactly one PACKET_RX_RING
\* reconfiguration, with an all-zero layout, when the socket is v2, and none,
\* leaving the geometry as it found it, when the socket is v3.
C5_TeardownAsymmetry ==
    pc = "torn" =>
        IF is_tpacket_v3(sock)
           THEN td.reconfs = <<>> /\ LayoutOf(ring) = td.entry
           ELSE /\ Len(td.reconfs) = 1
                /\ td.reconfs[1].layout = ZeroLayout
                /\ LayoutOf(ring) = ZeroLayout

C5_Witness ==
    /\ pc = "torn"
    /\ td.calls = 1
    /\ is_tpacket_v3(sock)
    /\ td.entry.tp_block_nr > 1
    /\ td.reconfs = <<>>

(* ---- C6 ---- *)
\* C6: for the v2 ABI, after every successful ring_rx_setup, frame count times
\* frame size equals block size times block count.
C6_FrameBlockProduct ==
    (pc = "ready" /\ ~is_tpacket_v3(sock)) =>
        ring.tp_frame_nr * ring.tp_frame_size = ring.tp_block_size * ring.tp_block_nr

C6_Witness ==
    /\ pc = "ready"
    /\ ~is_tpacket_v3(sock)
    /\ Len(reqs) >= 3
    /\ ring.tp_block_nr >= 1
    /\ ring.tp_frame_nr * ring.tp_frame_size = ring.mm_len

(* ---- C7 ---- *)
\* C7: once the frame table is built, the allocator has finished, the table
\* has tp_frame_nr entries of tp_frame_size (v2) or tp_block_nr entries of
\* tp_block_size (v3), taken from the geometry of the last, successful,
\* allocation request, and count times unit size is mm_len.
C7_FrameTableSizing ==
    pc \in {"bind", "poll", "ready"} =>
        /\ ring.frames = "live"
        /\ IsPrefix(<<"zero", "layout", "create", "mmap", "frames">>, steps)
        /\ LastReq.res = "OK"
        /\ IF is_tpacket_v3(sock)
              THEN /\ ring.frames_num = LastReq.layout.tp_block_nr
                   /\ ring.frames_size = LastReq.layout.tp_block_size
              ELSE /\ ring.frames_num = LastReq.layout.tp_frame_nr
                   /\ ring.frames_size = LastReq.layout.tp_frame_size
        /\ ring.frames_num * ring.frames_size = ring.mm_len

C7_Witness ==
    /\ pc = "ready"
    /\ is_tpacket_v3(sock)
    /\ Len(reqs) >= 3
    /\ ring.frames_num = ring.tp_block_nr
    /\ ring.frames_num # ring.tp_frame_nr
    /\ ring.frames_num < reqs[1].layout.tp_block_nr

(* ---- C8 ---- *)
\* C8: the steps of ring_rx_setup happen in the order zero, layout, create,
\* mmap, frames, bind, poll, each at most once and none before the one ahead
\* of it has completed; a returned setup has done all of them.
C8_SetupOrdering ==
    /\ IsPrefix(steps, SetupOrder)
    /\ (pc = "ready" => steps = SetupOrder)

C8_Witness == pc = "ready" /\ steps = SetupOrder /\ Len(reqs) >= 2

(* ---- C9 ---- *)
\* C9: ring_rx_setup returns only after a last allocation request that
\* succeeded and after mapping, frame table, bind and poll were done; a setup
\* that died has not completed, and no step ran after the one that failed.
C9_AllOrNothing ==
    /\ (pc \in {"ready", "d_free", "d_reconf", "torn"} =>
           /\ LastReq.res = "OK"
           /\ steps = SetupOrder)
    /\ (pc = "ready" =>
           /\ ring.mm_space = "mapped"
           /\ ring.mapped_len = ring.mm_len
           /\ ring.frames = "live")
    /\ ((pc = "dead" /\ td.calls = 0) =>
           /\ Len(steps) < Len(SetupOrder)
           /\ IsPrefix(steps, SetupOrder)
           /\ ("create" \notin {steps[i] : i \in 1..Len(steps)} =>
                  ring.mm_len = 0 /\ ring.mm_space = "null")
           /\ ("mmap" \notin {steps[i] : i \in 1..Len(steps)} =>
                  ring.frames = "null"))

C9_Witness ==
    /\ pc = "dead"
    /\ td.calls = 0
    /\ steps = <<"zero", "layout">>
    /\ Len(reqs) >= 2
    /\ LastReq.res = "EOTHER"

(* ---- C10 ---- *)
\* the geometry setup_rx_ring_layout leaves, as the layout section states it
LayoutAsStated ==
    (pc = "create" /\ reqs = <<>>) =>
        /\ ring.tp_block_nr = args.size \div ring.tp_block_size
        /\ ring.tp_frame_nr =
              (ring.tp_block_size \div ring.tp_frame_size) * ring.tp_block_nr
        /\ (~args.jumbo_support =>
               /\ ring.tp_block_size = 4 * pagesize
               /\ ring.tp_frame_size = 128 * TPACKET_ALIGNMENT)

FourPagesReady == pc = "ready" /\ args.size = 4 * pagesize /\ ~args.jumbo_support

\* C10 as stated: the layout is as above for both ABI versions, and a budget
\* of 4 pages without jumbo gives block count 1, no degradation step and a
\* frame table of length block_size / frame_size.
C10_LayoutAsClaimed ==
    /\ LayoutAsStated
    /\ (FourPagesReady =>
           /\ ring.tp_block_nr = 1
           /\ Len(reqs) = 1
           /\ ring.frames_num = ring.tp_block_size \div ring.tp_frame_size)

\* C10 amended: as C10, but the frame table has block_size / frame_size
\* entries under v2 and one entry, the block count, under v3.
C10_LayoutCalculation ==
    /\ LayoutAsStated
    /\ (FourPagesReady =>
           /\ ring.tp_block_nr = 1
           /\ Len(reqs) = 1
           /\ ring.frames_num = IF is_tpacket_v3(sock)
                                   THEN 1
                                   ELSE ring.tp_block_size \div ring.tp_frame_size)

C10_Witness ==
    /\ FourPagesReady
    /\ is_tpacket_v3(sock)
    /\ ring.frames_num = 1
    /\ ring.tp_frame_nr = 8

(* ---- C11 ---- *)
StatsReported == out.calls = 1 /\ out.ok

DropRateLines == {i \in 1..Len(out.lines) : out.lines[i].kind = "droprate"}

\* C11: when the counter query succeeds with counters (total, dropped), the
\* report gives passed-filter = total - dropped and out-of-space drops =
\* dropped, and has the drop-rate line, dropped / total * 100, exactly when
\* total > 0.
C11_StatisticsDerivation ==
    StatsReported =>
        /\ Len(out.lines) >= 3
        /\ out.lines[2] = [kind |-> "passed", val |-> U64(out.packets - out.drops)]
        /\ out.lines[3] = [kind |-> "failed", val |-> U64(out.drops)]
        /\ (DropRateLines # {}) <=> (out.packets > 0)
        /\ \A i \in DropRateLines :
              LET d == out.lines[i].val * out.packets - out.drops * 1000000
              IN  2 * d <= out.packets /\ -2 * d <= out.packets
        /\ ((out.packets = 1000 /\ out.drops = 50) =>
               out.lines[4] = [kind |-> "droprate", val |-> 50000])

C11_Witness ==
    /\ StatsReported
    /\ out.packets = 1000
    /\ out.drops = 50
    /\ out.lines[2].val = U64(950)
    /\ out.lines[4].val = 50000

(* ---- C12 ---- *)
\* C12: a failed PACKET_STATISTICS query prints no line, does not end the
\* process, and sock_rx_net_stats returns to its caller.
C12_QueryFailureSilent ==
    /\ []((out.calls = 1 /\ ~out.ok) => out.lines = <<>>)
    /\ [][(out.calls = 0 /\ out'.calls = 1 /\ ~out'.ok) =>
             (pc' = "ready" /\ ring' = ring /\ sock' = sock)]_vars

C12_Witness ==
    /\ out.calls = 1
    /\ ~out.ok
    /\ out.lines = <<>>
    /\ pc = "ready"
    /\ errno = "EOTHER"

(* ---- C18 ---- *)
\* C18: under v3 the unread-on-exit figure is kernel total - seen, a count
\* that is not negative and not above kernel total, whatever seen is, and the
\* total-packets figure is the kernel's received count; under v2 the unread
\* figure is 0.
C18_UnreadBacklog ==
    StatsReported =>
        /\ out.lines[1].kind = "incoming"
        /\ out.lines[1].val = U64(out.packets)
        /\ IF is_tpacket_v3(sock)
              THEN /\ ~out.lines[1].unread.wrap
                   /\ out.lines[1].unread.v = out.packets - out.seen
                   /\ out.lines[1].unread.v <= out.packets
              ELSE out.lines[1].unread = U64(0)

(* ---- C13 ---- *)
\* C13: every retry follows a request that itself failed with ENOMEM while
\* block count was above 1; a request that succeeded is followed neither by
\* a halving nor by another request, whatever errno held beforehand.
C13_RetryOnlyAfterFailure ==
    /\ \A i \in 1..(Len(reqs) - 1) :
          /\ reqs[i].res = "ENOMEM"
          /\ reqs[i].layout.tp_block_nr > 1
    /\ ((pc = "create" /\ Len(reqs) > 0) => LastReq.res = "ENOMEM")
    /\ ((Len(reqs) > 0 /\ LastReq.res = "OK" /\ td.calls = 0) =>
           ring.tp_block_nr = LastReq.layout.tp_block_nr)

(* ---- C14 ---- *)
\* C14: from the end of the layout calculation until teardown begins block
\* count is at least 1, for every budget, in the geometry and in every
\* allocation request issued.
C14_BlockCountLowerBound ==
    /\ (pc \in {"create", "create_chk", "mmap", "frames", "bind", "poll", "ready"} =>
           ring.tp_block_nr >= 1)
    /\ \A i \in 1..Len(reqs) : reqs[i].layout.tp_block_nr >= 1

(* ---- C15 ---- *)
\* C15: an allocation request that fails with an error other than ENOMEM is
\* followed at once by the fatal exit: no halving, no further request, and
\* no mapping, frame-table, bind or poll step.
C15_OtherErrorFatal ==
    /\ [][(pc = "create_chk" /\ LastReq.res = "EOTHER") =>
             (pc' = "dead" /\ ring' = ring /\ reqs' = reqs /\ steps' = steps)]_vars
    /\ [](\A i \in 1..(Len(reqs) - 1) : reqs[i].res # "EOTHER")
    /\ []((Len(reqs) > 0 /\ LastReq.res = "EOTHER") =>
             /\ pc \in {"create_chk", "dead"}
             /\ steps = <<"zero", "layout">>
             /\ ring.tp_block_nr = LastReq.layout.tp_block_nr
             /\ ring.mm_space = "null" /\ ring.frames = "null")

C15_Witness ==
    /\ pc = "dead"
    /\ Len(reqs) = 1
    /\ LastReq.res = "EOTHER"
    /\ LastReq.layout.tp_block_nr > 1
    /\ ring.tp_block_nr = LastReq.layout.tp_block_nr

(* ---- C16 ---- *)
\* the least c with 2^c >= n, for n >= 1
RECURSIVE CeilLog2From(_, _)
CeilLog2From(n, c) == IF 2 ^ c >= n THEN c ELSE CeilLog2From(n, c + 1)

CeilLog2(n) == CeilLog2From(n, 0)

\* C16: with initial block count n >= 1, create_rx_ring issues at most
\* ceil(log2(n)) requests after the first, whatever the requests return.
C16_RetryBound ==
    (Len(reqs) >= 1 /\ reqs[1].layout.tp_block_nr >= 1) =>
        Len(reqs) - 1 <= CeilLog2(reqs[1].layout.tp_block_nr)

C16_Witness ==
    /\ Len(reqs) >= 3
    /\ reqs[1].layout.tp_block_nr >= 4
    /\ Len(reqs) - 1 = CeilLog2(reqs[1].layout.tp_block_nr)

(* ---- C17 ---- *)
TeardownOrder == <<"unmap", "free", "reconf">>

\* C17: destroy_rx_ring unmaps and sets mm_len to 0, then releases the frame
\* table, then, for v2 only, zeroes the geometry and reconfigures the socket;
\* mm_len is 0 after teardown under both versions, and a v2 teardown whose
\* reconfiguration failed ends in the fatal exit.
C17_TeardownOrder ==
    /\ IsPrefix(td.trace, TeardownOrder)
    /\ (pc \in {"d_free", "d_reconf", "torn"} => ring.mm_len = 0)
    /\ (pc \in {"d_free", "d_reconf"} =>
           /\ LayoutOf(ring) = td.entry
           /\ td.reconfs = <<>>
           /\ td.trace = IF pc = "d_free" THEN <<"unmap">> ELSE <<"unmap", "free">>)
    /\ (pc = "torn" =>
           IF is_tpacket_v3(sock)
              THEN td.trace = <<"unmap", "free">>
              ELSE td.trace = TeardownOrder /\ td.reconfs[1].res = "OK")
    /\ ((td.reconfs # <<>> /\ td.reconfs[1].res # "OK") => pc = "dead")

C17_Witness ==
    /\ pc = "dead"
    /\ td.calls = 1
    /\ td.trace = TeardownOrder
    /\ td.reconfs[1].res = "EOTHER"
    /\ ring.mm_len = 0
    /\ ring.mm_space = "unmapped"

(* ---- C19 ---- *)
LayoutDone == pc = "create" /\ reqs = <<>>

\* C19 as stated: the block size chosen with jumbo enabled is 16 times the
\* block size chosen with jumbo disabled.
C19_JumboSixteenTimes ==
    LayoutDone =>
        ring.tp_block_size =
           (IF args.jumbo_support THEN 16 ELSE 1) * BlockSize(FALSE, pagesize)

\* C19 amended: the block size chosen with jumbo enabled is 4 times the block
\* size chosen with jumbo disabled: 16 pages against 4 pages.
C19_JumboFourTimes ==
    LayoutDone =>
        /\ ring.tp_block_size =
              (IF args.jumbo_support THEN 4 ELSE 1) * BlockSize(FALSE, pagesize)
        /\ ring.tp_block_size = (IF args.jumbo_support THEN 16 ELSE 4) * pagesize

C19_Witness ==
    /\ LayoutDone
    /\ args.jumbo_support
    /\ pagesize = 16384
    /\ ring.tp_block_size = 262144

(* ---- C20 ---- *)
AfterLayout == pc \notin {"idle", "layout"}

\* C20: the variant on the socket after the layout step is the caller's v3
\* flag and is there before the first allocation request; the layout size of
\* every request, the pair of the frame table and the teardown branch follow
\* that variant, and it does not change until the ring is gone.
C20_VariantConsistency ==
    /\ [](AfterLayout => (is_tpacket_v3(sock) <=> args.v3))
    /\ [](AfterLayout => sock.version \in {"TPACKET_V2", "TPACKET_V3"})
    /\ [](~AfterLayout => reqs = <<>>)
    /\ [](\A i \in 1..Len(reqs) :
             reqs[i].len = IF args.v3 THEN "layout3" ELSE "layout")
    /\ [](ring.frames = "live" =>
             <<ring.frames_num, ring.frames_size>> =
                IF args.v3
                   THEN <<LastReq.layout.tp_block_nr, LastReq.layout.tp_block_size>>
                   ELSE <<LastReq.layout.tp_frame_nr, LastReq.layout.tp_frame_size>>)
    /\ [](td.calls > 0 => (td.v3 <=> args.v3))
    /\ [](pc = "torn" => ((td.reconfs = <<>>) <=> args.v3))
    /\ [][AfterLayout => sock' = sock]_vars

C20_Witness ==
    /\ pc = "torn"
    /\ args.v3
    /\ td.v3
    /\ reqs[1].len = "layout3"
    /\ ring.frames_num = LastReq.layout.tp_block_nr
    /\ ring.frames_num # LastReq.layout.tp_frame_nr
====
